---- MODULE Spec2Model ----
(***************************************************************************)
(* A model of src/src/lib.rs: the Universe of a toroidal Game of Life,     *)
(* whose cells live in a FixedBitSet of fixed length.                      *)
(*                                                                         *)
(* Scaling.  The source builds a 64 x 64 universe and computes in u32.     *)
(* The model keeps the code's arithmetic and control flow and scales the   *)
(* two magnitudes down: the universe starts InitWidth x InitHeight, and a  *)
(* u32 holds the values 0 .. Modulus-1.  Modulus stays larger than the     *)
(* number of cells, as 2^32 is larger than 4096.                           *)
(*                                                                         *)
(* Builds.  Rust's arithmetic overflow panics when the crate is built      *)
(* with overflow checks (debug profile) and wraps otherwise (release       *)
(* profile).  overflow_checks is fixed at construction and both builds     *)
(* are explored.                                                           *)
(*                                                                         *)
(* Failure.  A panic ends the call where it happens; what the call wrote   *)
(* to self before that point stays written.  outcome records how the last  *)
(* call ended, op which operation it was.                                  *)
(*                                                                         *)
(* Timer.  tick holds a Timer for its whole body: Timer::new calls         *)
(* console.time(name) and its Drop calls console.timeEnd(name).  console   *)
(* records the console calls of the last call.  A panic that unwinds       *)
(* drops the locals of tick; a panic that aborts (the panic strategy of    *)
(* the wasm32 target the console binding needs) drops nothing.  Which of   *)
(* the two a build does is chosen at each panic.                           *)
(***************************************************************************)
EXTENDS Integers, Sequences, FiniteSets, TLC

VARIABLES width, height, cells, overflow_checks, op, outcome, console

vars == <<width, height, cells, overflow_checks, op, outcome, console>>

(***************************************************************************)
(* Program constants (scaled) and the bounds of the inputs.                *)
(***************************************************************************)
\* let width = 64 (scaled)
InitWidth == 3
\* let height = 64 (scaled)
InitHeight == 3
\* number of values of a u32 (2^32, scaled)
Modulus == 2 ^ 10
\* width of a storage word of the FixedBitSet (as_slice() is a &[u32])
BlockBits == 32

\* largest ordinary argument of set_width / set_height
MaxDim == 3
\* largest row / column argument of toggle_cell, set_cells, insert_glider
MaxCoord == 2
\* longest coordinate list passed to set_cells
MaxList == 1

\* the smallest dimension whose product with the initial one overflows a u32
WrapDim == (Modulus \div InitHeight) + 1
Dims == (0 .. MaxDim) \cup {WrapDim}
Coords == 0 .. MaxCoord

(***************************************************************************)
(* u32 arithmetic: the wrapped value, and whether the operation overflows. *)
(***************************************************************************)
WrapU32(n) == n % Modulus
Overflows(n) == n < 0 \/ n >= Modulus

(***************************************************************************)
(* FixedBitSet: a function from 0 .. length-1 to BOOLEAN.                  *)
(*   bs[bit]      is false for a bit at or beyond the length;              *)
(*   bs.set(b, v) panics for a bit at or beyond the length.                *)
(***************************************************************************)
Length(bs) == Cardinality(DOMAIN bs)
Contains(bs, bit) == bit \in DOMAIN bs /\ bs[bit]
SetPanics(bs, bit) == bit \notin DOMAIN bs
SetBit(bs, bit, enabled) == [bs EXCEPT ![bit] = enabled]

\* Universe::get_index: (row * self.width + column) as usize
get_index(w, row, column) == WrapU32(row * w + column)
get_index_overflows(w, row, column) == Overflows(row * w + column)

(***************************************************************************)
(* Universe::live_neighbor_count.  north/south/west/east are the code's    *)
(* four conditionals, in u32; the eight reads go through get_index and     *)
(* the bit set's index operator.                                           *)
(***************************************************************************)
\* a northern neighbour row that stays at row 0 instead of wrapping
north_unwrapped(h, row) == IF row = 0 THEN 0 ELSE row - 1

\* a southern neighbour row that does not wrap to row 0
south_unwrapped(h, row) == WrapU32(row + 1)

north(h, row) == IF row = 0 THEN WrapU32(h - 1) ELSE row - 1
south(h, row) == IF row = WrapU32(h - 1) THEN 0 ELSE WrapU32(row + 1)
west(w, column) == IF column = 0 THEN WrapU32(w - 1) ELSE column - 1
east(w, column) == IF column = WrapU32(w - 1) THEN 0 ELSE WrapU32(column + 1)

\* the (row, column) pairs read, in the order nw, n, ne, w, e, sw, s, se
neighbors(w, h, row, column) ==
  << <<north(h, row), west(w, column)>>, <<north(h, row), column>>,
     <<north(h, row), east(w, column)>>, <<row, west(w, column)>>,
     <<row, east(w, column)>>, <<south(h, row), west(w, column)>>,
     <<south(h, row), column>>, <<south(h, row), east(w, column)>> >>

\* an arithmetic overflow somewhere in live_neighbor_count
live_neighbor_overflows(w, h, row, column) ==
  \/ Overflows(h - 1)
  \/ Overflows(w - 1)
  \/ (row # WrapU32(h - 1) /\ Overflows(row + 1))
  \/ (column # WrapU32(w - 1) /\ Overflows(column + 1))
  \/ \E k \in 1 .. 8 :
       LET n == neighbors(w, h, row, column)[k]
       IN get_index_overflows(w, n[1], n[2])

RECURSIVE count_from(_, _, _, _)
count_from(w, bs, n, k) ==
  IF k > Len(n) THEN 0
  ELSE (IF Contains(bs, get_index(w, n[k][1], n[k][2])) THEN 1 ELSE 0)
       + count_from(w, bs, n, k + 1)

live_neighbor_count(w, h, bs, row, column) ==
  count_from(w, bs, neighbors(w, h, row, column), 1)

(***************************************************************************)
(* Universe::tick.  The match on (cell, live_neighbors), then the scan:    *)
(* rows 0..height, columns 0..width, position k = row * width + column in  *)
(* scan order.  next starts as a clone of self.cells; self.cells is        *)
(* assigned only after the scan, so a panic inside it leaves self as it    *)
(* was.                                                                    *)
(***************************************************************************)
next_cell(cell, x) ==
  IF cell /\ x < 2 THEN FALSE
  ELSE IF cell /\ (x = 2 \/ x = 3) THEN TRUE
  ELSE IF cell /\ x > 3 THEN FALSE
  ELSE IF ~cell /\ x = 3 THEN TRUE
  ELSE cell

RECURSIVE tick_scan(_, _, _, _, _, _)
tick_scan(w, h, bs, chk, k, next) ==
  IF k >= w * h THEN [panics |-> FALSE, cells |-> next]
  ELSE LET row == k \div w
           col == k % w
           idx == get_index(w, row, col)
       IN IF \/ chk /\ get_index_overflows(w, row, col)
             \/ chk /\ live_neighbor_overflows(w, h, row, col)
             \/ SetPanics(next, idx)
          THEN [panics |-> TRUE, cells |-> bs]
          ELSE tick_scan(w, h, bs, chk, k + 1,
                 SetBit(next, idx,
                   next_cell(Contains(bs, idx),
                             live_neighbor_count(w, h, bs, row, col))))

\* tick with height - 1 and width - 1 computed once, ahead of the scan
tick_result_hoisted(w, h, bs, chk) ==
  IF chk /\ (Overflows(h - 1) \/ Overflows(w - 1))
  THEN [width |-> w, height |-> h, cells |-> bs, panics |-> TRUE]
  ELSE LET r == tick_scan(w, h, bs, chk, 0, bs)
       IN [width |-> w, height |-> h, cells |-> r.cells, panics |-> r.panics]

tick_result(w, h, bs, chk) ==
  LET r == tick_scan(w, h, bs, chk, 0, bs)
  IN [width |-> w, height |-> h, cells |-> r.cells, panics |-> r.panics]

(***************************************************************************)
(* for i in 0..(self.width * self.height) as usize { self.cells.set(i, v) }*)
(* The bound is the u32 product; src[i] is the value written at i.         *)
(***************************************************************************)
RECURSIVE fill(_, _, _, _)
fill(bs, i, n, src) ==
  IF i >= n THEN [panics |-> FALSE, cells |-> bs]
  ELSE IF SetPanics(bs, i) THEN [panics |-> TRUE, cells |-> bs]
  ELSE fill(SetBit(bs, i, src[i]), i + 1, n, src)

fill_all(w, h, bs, chk, src) ==
  IF chk /\ Overflows(w * h)
  THEN [width |-> w, height |-> h, cells |-> bs, panics |-> TRUE]
  ELSE LET r == fill(bs, 0, WrapU32(w * h), src)
       IN [width |-> w, height |-> h, cells |-> r.cells, panics |-> r.panics]

AllFalse(bs) == [i \in DOMAIN bs |-> FALSE]

\* Universe::reset_all_dead
reset_all_dead_result(w, h, bs, chk) == fill_all(w, h, bs, chk, AllFalse(bs))

\* Universe::reset; random[i] is the i-th answer of Math.random() < 0.5
reset_result(w, h, bs, chk, random) == fill_all(w, h, bs, chk, random)

\* Universe::set_width: the field is assigned first, then the cells cleared
set_width_result(w, h, bs, chk, new_width) ==
  fill_all(new_width, h, bs, chk, AllFalse(bs))

\* Universe::set_height
set_height_result(w, h, bs, chk, new_height) ==
  fill_all(w, new_height, bs, chk, AllFalse(bs))

\* Universe::toggle_cell
toggle_cell_result(w, h, bs, chk, row, column) ==
  LET idx == get_index(w, row, column)
  IN IF (chk /\ get_index_overflows(w, row, column)) \/ SetPanics(bs, idx)
     THEN [width |-> w, height |-> h, cells |-> bs, panics |-> TRUE]
     ELSE [width |-> w, height |-> h,
           cells |-> SetBit(bs, idx, ~Contains(bs, idx)), panics |-> FALSE]

\* Universe::set_cells: the coordinates are written in list order
RECURSIVE set_cells_from(_, _, _, _, _)
set_cells_from(w, bs, chk, list, k) ==
  IF k > Len(list) THEN [panics |-> FALSE, cells |-> bs]
  ELSE LET idx == get_index(w, list[k][1], list[k][2])
       IN IF \/ chk /\ get_index_overflows(w, list[k][1], list[k][2])
             \/ SetPanics(bs, idx)
          THEN [panics |-> TRUE, cells |-> bs]
          ELSE set_cells_from(w, SetBit(bs, idx, TRUE), chk, list, k + 1)

set_cells_result(w, h, bs, chk, list) ==
  LET r == set_cells_from(w, bs, chk, list, 1)
  IN [width |-> w, height |-> h, cells |-> r.cells, panics |-> r.panics]

(***************************************************************************)
(* Universe::insert_glider and Universe::insert_pulsar.  Both are: the     *)
(* bounds test (a short-circuit ||, so height - 2 is computed only when    *)
(* row >= 1 and column >= 1), then two nested loops that write the         *)
(* pattern, entry pattern_idx at (row - half + i, column - half + j).      *)
(***************************************************************************)
GliderHalf == 1
PulsarHalf == 7

GliderPattern ==
  << FALSE, TRUE, FALSE,
     FALSE, FALSE, TRUE,
     TRUE, TRUE, TRUE >>

PulsarPattern ==
  <<
     FALSE, FALSE, FALSE, FALSE, FALSE, FALSE, FALSE, FALSE, FALSE, FALSE, FALSE, FALSE, FALSE, FALSE, FALSE,
     FALSE, FALSE, FALSE, TRUE , TRUE , TRUE , FALSE, FALSE, FALSE, TRUE , TRUE , TRUE , FALSE, FALSE, FALSE,
     FALSE, FALSE, FALSE, FALSE, FALSE, FALSE, FALSE, FALSE, FALSE, FALSE, FALSE, FALSE, FALSE, FALSE, FALSE,
     FALSE, TRUE , FALSE, FALSE, FALSE, FALSE, TRUE , FALSE, TRUE , FALSE, FALSE, FALSE, FALSE, TRUE , FALSE,
     FALSE, TRUE , FALSE, FALSE, FALSE, FALSE, TRUE , FALSE, TRUE , FALSE, FALSE, FALSE, FALSE, TRUE , FALSE,
     FALSE, TRUE , FALSE, FALSE, FALSE, FALSE, TRUE , FALSE, TRUE , FALSE, FALSE, FALSE, FALSE, TRUE , FALSE,
     FALSE, FALSE, FALSE, TRUE , TRUE , TRUE , FALSE, FALSE, FALSE, TRUE , TRUE , TRUE , FALSE, FALSE, FALSE,
     FALSE, FALSE, FALSE, FALSE, FALSE, FALSE, FALSE, FALSE, FALSE, FALSE, FALSE, FALSE, FALSE, FALSE, FALSE,
     FALSE, FALSE, FALSE, TRUE , TRUE , TRUE , FALSE, FALSE, FALSE, TRUE , TRUE , TRUE , FALSE, FALSE, FALSE,
     FALSE, TRUE , FALSE, FALSE, FALSE, FALSE, TRUE , FALSE, TRUE , FALSE, FALSE, FALSE, FALSE, TRUE , FALSE,
     FALSE, TRUE , FALSE, FALSE, FALSE, FALSE, TRUE , FALSE, TRUE , FALSE, FALSE, FALSE, FALSE, TRUE , FALSE,
     FALSE, TRUE , FALSE, FALSE, FALSE, FALSE, TRUE , FALSE, TRUE , FALSE, FALSE, FALSE, FALSE, TRUE , FALSE,
     FALSE, FALSE, FALSE, FALSE, FALSE, FALSE, FALSE, FALSE, FALSE, FALSE, FALSE, FALSE, FALSE, FALSE, FALSE,
     FALSE, FALSE, FALSE, TRUE , TRUE , TRUE , FALSE, FALSE, FALSE, TRUE , TRUE , TRUE , FALSE, FALSE, FALSE,
     FALSE, FALSE, FALSE, FALSE, FALSE, FALSE, FALSE, FALSE, FALSE, FALSE, FALSE, FALSE, FALSE, FALSE, FALSE
  >>

\* a bounds test without the lower bounds row < half, column < half
stamp_guard_upper_only(w, h, chk, row, column, half) ==
  IF chk /\ Overflows(h - (half + 1)) THEN "panic"
  ELSE IF row > WrapU32(h - (half + 1)) THEN "return"
  ELSE IF chk /\ Overflows(w - (half + 1)) THEN "panic"
  ELSE IF column > WrapU32(w - (half + 1)) THEN "return"
  ELSE "pass"

\* what the bounds test does: "return", "panic" (overflow, checked build) or "pass"
stamp_guard(w, h, chk, row, column, half) ==
  IF row < half THEN "return"
  ELSE IF column < half THEN "return"
  ELSE IF chk /\ Overflows(h - (half + 1)) THEN "panic"
  ELSE IF row > WrapU32(h - (half + 1)) THEN "return"
  ELSE IF chk /\ Overflows(w - (half + 1)) THEN "panic"
  ELSE IF column > WrapU32(w - (half + 1)) THEN "return"
  ELSE "pass"

\* the two loops, flattened: pattern_idx = k, side = 2 * half + 1
RECURSIVE stamp_scan(_, _, _, _, _, _, _, _)
stamp_scan(w, bs, chk, r0, c0, side, pattern, k) ==
  IF k >= side * side THEN [panics |-> FALSE, cells |-> bs]
  ELSE LET i == r0 + (k \div side)
           j == c0 + (k % side)
           idx == get_index(w, i, j)
       IN IF (chk /\ get_index_overflows(w, i, j)) \/ SetPanics(bs, idx)
          THEN [panics |-> TRUE, cells |-> bs]
          ELSE stamp_scan(w, SetBit(bs, idx, pattern[k + 1]), chk,
                          r0, c0, side, pattern, k + 1)

stamp_result(w, h, bs, chk, row, column, half, pattern) ==
  LET g == stamp_guard(w, h, chk, row, column, half)
      same == [width |-> w, height |-> h, cells |-> bs, panics |-> FALSE]
  IN IF g = "return" THEN same
     ELSE IF g = "panic" THEN [same EXCEPT !.panics = TRUE]
     \* (row - half)..(row + half + 1) and the same for the columns
     ELSE IF Overflows(row + half + 1) \/ Overflows(column + half + 1)
          THEN [same EXCEPT !.panics = chk]
     ELSE LET r == stamp_scan(w, bs, chk, row - half, column - half,
                              2 * half + 1, pattern, 0)
          IN [width |-> w, height |-> h, cells |-> r.cells, panics |-> r.panics]

insert_glider_result(w, h, bs, chk, row, column) ==
  stamp_result(w, h, bs, chk, row, column, GliderHalf, GliderPattern)

insert_pulsar_result(w, h, bs, chk, row, column) ==
  stamp_result(w, h, bs, chk, row, column, PulsarHalf, PulsarPattern)

(***************************************************************************)
(* Universe::render, through fmt::Display: the storage words of the bit    *)
(* set (as_slice), cut into chunks of width words; one glyph per word,     *)
(* chosen by word == 0; a newline after each chunk.  chunks(0) panics.     *)
(***************************************************************************)
DeadGlyph == "dead"
AliveGlyph == "alive"
Newline == "\n"

\* as_slice(): word k holds the bits BlockBits * k .. BlockBits * k + BlockBits - 1
as_slice_is_zero(bs) ==
  [k \in 1 .. ((Length(bs) + BlockBits - 1) \div BlockBits) |->
     ~ \E bit \in DOMAIN bs : bit \div BlockBits = k - 1 /\ bs[bit]]

RECURSIVE chunks(_, _)
chunks(slice, n) ==
  IF Len(slice) = 0 THEN << >>
  ELSE IF Len(slice) <= n THEN << slice >>
  ELSE << SubSeq(slice, 1, n) >> \o chunks(SubSeq(slice, n + 1, Len(slice)), n)

render_result(w, bs) ==
  IF w = 0 THEN [panics |-> TRUE, text |-> << >>]
  ELSE LET lines == chunks(as_slice_is_zero(bs), w)
       IN [panics |-> FALSE,
           text |-> [l \in 1 .. Len(lines) |->
                       [c \in 1 .. Len(lines[l]) |->
                          IF lines[l][c] THEN DeadGlyph ELSE AliveGlyph]
                       \o << Newline >>]]

(***************************************************************************)
(* The state machine: one action per public method.                        *)
(***************************************************************************)
\* answers of Math.random() < 0.5, one per cell: every m-th cell alive
MaxSeed == 2
RandomDraws(bs) == { [i \in DOMAIN bs |-> i % m = 0] : m \in 1 .. MaxSeed }

PulsarCoords == {0, PulsarHalf}

RECURSIVE SeqsUpTo(_, _)
SeqsUpTo(S, n) ==
  IF n = 0 THEN { << >> }
  ELSE SeqsUpTo(S, n - 1)
       \cup { Append(q, x) : q \in { t \in SeqsUpTo(S, n - 1) : Len(t) = n - 1 }, x \in S }

\* set_cells is given lists over the diagonal and the first row's off-grid column
ListCoords == { <<k, k>> : k \in Coords } \cup { <<0, MaxCoord>> }
CoordLists == SeqsUpTo(ListCoords, MaxList)

Outcome(r) == IF r.panics THEN "panic" ELSE "ok"

\* Timer: the console calls of its constructor and of its Drop
Timer_new(name) == << <<"time", name>> >>
Timer_drop(name) == << <<"timeEnd", name>> >>

\* let _timer = Timer::new("Universe::tick"), alive until tick is left
TickTimer == "Universe::tick"
\* the console calls tick can make: the Drop always runs when tick returns
\* and when a panic unwinds, and does not run when a panic aborts
tick_console(panics) ==
  { Timer_new(TickTimer) \o Timer_drop(TickTimer) }
    \cup (IF panics THEN { Timer_new(TickTimer) } ELSE { })

\* the effect of a call on self, how it ended, and its console calls
Does(name, r, events) ==
  /\ width' = r.width
  /\ height' = r.height
  /\ cells' = r.cells
  /\ op' = name
  /\ outcome' = Outcome(r)
  /\ console' = events
  /\ UNCHANGED overflow_checks

\* a call of a method that holds no Timer
Apply(name, r) == Does(name, r, << >>)

\* Universe::new
Init ==
  /\ width = InitWidth
  /\ height = InitHeight
  /\ cells \in [0 .. (InitWidth * InitHeight - 1) -> BOOLEAN]
  /\ overflow_checks \in BOOLEAN
  /\ op = "new"
  /\ outcome = "ok"
  /\ console = << >>

tick ==
  \E r \in {tick_result(width, height, cells, overflow_checks)} :
    \E events \in tick_console(r.panics) : Does("tick", r, events)

reset ==
  \E random \in RandomDraws(cells) :
    Apply("reset", reset_result(width, height, cells, overflow_checks, random))

reset_all_dead ==
  Apply("reset_all_dead", reset_all_dead_result(width, height, cells, overflow_checks))

set_width ==
  \E w \in Dims :
    Apply("set_width", set_width_result(width, height, cells, overflow_checks, w))

set_height ==
  \E h \in Dims :
    Apply("set_height", set_height_result(width, height, cells, overflow_checks, h))

toggle_cell ==
  \E row \in Coords, column \in Coords :
    Apply("toggle_cell",
          toggle_cell_result(width, height, cells, overflow_checks, row, column))

set_cells ==
  \E list \in CoordLists :
    Apply("set_cells", set_cells_result(width, height, cells, overflow_checks, list))

insert_glider ==
  \E row \in Coords, column \in Coords :
    Apply("insert_glider",
          insert_glider_result(width, height, cells, overflow_checks, row, column))

insert_pulsar ==
  \E row \in PulsarCoords, column \in PulsarCoords :
    Apply("insert_pulsar",
          insert_pulsar_result(width, height, cells, overflow_checks, row, column))

render ==
  /\ op' = "render"
  /\ outcome' = Outcome(render_result(width, cells))
  /\ console' = << >>
  /\ UNCHANGED <<width, height, cells, overflow_checks>>

Next ==
  \/ tick
  \/ reset
  \/ reset_all_dead
  \/ set_width
  \/ set_height
  \/ toggle_cell
  \/ set_cells
  \/ insert_glider
  \/ insert_pulsar
  \/ render

Spec == Init /\ [][Next]_vars

\* the calls that follow only calls that completed normally: a panic ends the run
NextClean == outcome = "ok" /\ Next

SpecClean == Init /\ [][NextClean]_vars

\* insert_glider called at the origin
insert_glider_origin ==
  Apply("insert_glider",
        insert_glider_result(width, height, cells, overflow_checks, 0, 0))

\* the editing calls that reach every grid size and content, with tick and
\* with insert_glider called only at the origin
NextEdit ==
  \/ tick
  \/ set_width
  \/ set_height
  \/ toggle_cell
  \/ insert_glider_origin

SpecEdit == Init /\ [][NextEdit]_vars

(***************************************************************************)
(* The same methods on a larger universe, for the patterns that need at    *)
(* least 4x4 or 5x5 cells: the constructor's 64x64 is scaled to            *)
(* WideDim x WideDim, and set_cells is given blinker lines and 2x2 blocks  *)
(* on an empty cell array.                                                 *)
(***************************************************************************)
WideDim == 5
\* the smallest dimension whose product with WideDim overflows a u32
WideWrapDim == (Modulus \div WideDim) + 1
WideDims == {WideDim - 1, WideDim, WideWrapDim}

\* the three cells of a horizontal line centred on (r, c) of an n x n torus
LineList(n, r, c) == << <<r, (c + n - 1) % n>>, <<r, c>>, <<r, (c + 1) % n>> >>
\* the four cells of a 2x2 block with top-left corner (r, c) of an n x n torus
BlockList(n, r, c) ==
  << <<r, c>>, <<r, (c + 1) % n>>, <<(r + 1) % n, c>>, <<(r + 1) % n, (c + 1) % n>> >>

WideLists ==
  UNION { { LineList(n, r, c), BlockList(n, r, c) } :
            n \in {WideDim - 1, WideDim}, r \in 0 .. (WideDim - 1), c \in 0 .. (WideDim - 1) }

InitWide ==
  /\ width = WideDim
  /\ height = WideDim
  /\ cells \in RandomDraws([i \in 0 .. (WideDim * WideDim - 1) |-> FALSE])
  /\ overflow_checks \in BOOLEAN
  /\ op = "new"
  /\ outcome = "ok"
  /\ console = << >>

wide_set_width ==
  \E w \in WideDims :
    Apply("set_width", set_width_result(width, height, cells, overflow_checks, w))

wide_set_height ==
  \E h \in WideDims :
    Apply("set_height", set_height_result(width, height, cells, overflow_checks, h))

\* set_cells called with a line or a block while no bit of the array is set
wide_set_cells ==
  /\ \A i \in DOMAIN cells : ~ cells[i]
  /\ \E list \in WideLists :
       Apply("set_cells", set_cells_result(width, height, cells, overflow_checks, list))

NextWide ==
  \/ tick
  \/ reset_all_dead
  \/ wide_set_width
  \/ wide_set_height
  \/ wide_set_cells

SpecWide == InitWide /\ [][NextWide]_vars

\* a panic ends the run
NextWideClean == outcome = "ok" /\ NextWide

SpecWideClean == InitWide /\ [][NextWideClean]_vars

(***************************************************************************)
(* tick as a function of the grid: every width and height of at least 1   *)
(* that set_width and set_height leave when they complete (the clearing    *)
(* loop 0 .. width * height stays inside the cell array, the product being *)
(* wrapped in a build without overflow checks), every content of the cell  *)
(* array, both builds; the only call is tick.                              *)
(***************************************************************************)
InitGrids ==
  /\ width \in Dims \ {0}
  /\ height \in Dims \ {0}
  /\ cells \in [0 .. (InitWidth * InitHeight - 1) -> BOOLEAN]
  /\ overflow_checks \in BOOLEAN
  /\ IF overflow_checks
     THEN width * height <= Length(cells)
     ELSE WrapU32(width * height) <= Length(cells)
  /\ op = "edited"
  /\ outcome = "ok"
  /\ console = << >>

SpecGrids == InitGrids /\ [][tick]_vars

(***************************************************************************)
(* The vocabulary of the claims, stated without the code's operators:      *)
(* the cell at (r, c) is the bit at the row-major position r * width + c,  *)
(* computed in the integers; a position the storage does not hold is Dead. *)
(***************************************************************************)
CellAt(w, bs, r, c) == (r * w + c) \in DOMAIN bs /\ bs[r * w + c]

Bit(b) == IF b THEN 1 ELSE 0

\* the live cells among the 8 toroidal neighbours of (r, c)
ToroidalCount(w, h, bs, r, c) ==
    Bit(CellAt(w, bs, (r - 1) % h, (c - 1) % w))
  + Bit(CellAt(w, bs, (r - 1) % h, c))
  + Bit(CellAt(w, bs, (r - 1) % h, (c + 1) % w))
  + Bit(CellAt(w, bs, r, (c - 1) % w))
  + Bit(CellAt(w, bs, r, (c + 1) % w))
  + Bit(CellAt(w, bs, (r + 1) % h, (c - 1) % w))
  + Bit(CellAt(w, bs, (r + 1) % h, c))
  + Bit(CellAt(w, bs, (r + 1) % h, (c + 1) % w))

\* the rule table of Life
LifeRule(alive, n) ==
  IF alive THEN n = 2 \/ n = 3 ELSE n = 3

\* the step just taken is the call whose result is r
Took(name, r) ==
  /\ op' = name
  /\ width' = r.width
  /\ height' = r.height
  /\ cells' = r.cells
  /\ outcome' = Outcome(r)

\* the storage holds the whole width x height grid
Sized == width * height <= Length(cells)

(***************************************************************************)
(* C1.  For every grid with width >= 1 and height >= 1, after one tick     *)
(* every cell (r, c) of the grid equals the Life rule applied to that      *)
(* cell's state and toroidal live-neighbour count before the tick.         *)
(***************************************************************************)
TickIsLifeStep ==
  /\ outcome' = "ok"
  /\ width' = width /\ height' = height
  /\ \A r \in 0 .. height - 1, c \in 0 .. width - 1 :
       CellAt(width', cells', r, c)
         = LifeRule(CellAt(width, cells, r, c),
                    ToroidalCount(width, height, cells, r, c))

C1_TickSynchronous ==
  [][(op' = "tick" /\ width >= 1 /\ height >= 1) => TickIsLifeStep]_vars

\* the same on the grids the storage holds: the rule and the double buffer are right
C1_TickSynchronousSized ==
  [][(op' = "tick" /\ width >= 1 /\ height >= 1 /\ Sized) => TickIsLifeStep]_vars

(***************************************************************************)
(* C2.  For every grid with width >= 1 and height >= 1 and every in-range  *)
(* (row, column), live_neighbor_count completes and returns the number of  *)
(* live cells among the 8 offsets taken modulo height and width, a value   *)
(* in 0..8.  Stated of the grids that a call which completed leaves.       *)
(***************************************************************************)
NeighborCountRight(r, c) ==
  /\ ~ (overflow_checks /\ live_neighbor_overflows(width, height, r, c))
  /\ live_neighbor_count(width, height, cells, r, c)
       = ToroidalCount(width, height, cells, r, c)
  /\ live_neighbor_count(width, height, cells, r, c) \in 0 .. 8

C2_NeighborCount ==
  (outcome = "ok" /\ width >= 1 /\ height >= 1) =>
    \A r \in 0 .. height - 1, c \in 0 .. width - 1 : NeighborCountRight(r, c)

C2_NeighborCountSized ==
  (width >= 1 /\ height >= 1 /\ Sized) =>
    \A r \in 0 .. height - 1, c \in 0 .. width - 1 : NeighborCountRight(r, c)

(***************************************************************************)
(* C3.  In every reachable state the length of the cell array equals       *)
(* width * height.                                                         *)
(***************************************************************************)
C3_LengthIsWidthTimesHeight == Length(cells) = width * height

(***************************************************************************)
(* C4.  set_width / set_height with any new dimension completes normally   *)
(* and leaves every cell (r, c), r < height, c < width, Dead.              *)
(***************************************************************************)
C4_ResizeCompletesAllDead ==
  [][(op' = "set_width" \/ op' = "set_height") =>
       /\ outcome' = "ok"
       /\ \A r \in 0 .. height' - 1, c \in 0 .. width' - 1 :
            ~ CellAt(width', cells', r, c)]_vars

(***************************************************************************)
(* C5.  toggle_cell(row, column) with row >= height or column >= width,    *)
(* and set_cells with such coordinates only, change no cell of the         *)
(* storage: they fail or do nothing.                                       *)
(***************************************************************************)
OffGrid(row, column) == row >= height \/ column >= width

C5_OffGridEditsChangeNothing ==
  [][/\ \A row \in Coords, column \in Coords :
          ( /\ OffGrid(row, column)
            /\ Took("toggle_cell",
                    toggle_cell_result(width, height, cells, overflow_checks,
                                       row, column)) )
          => cells' = cells
     /\ \A list \in CoordLists :
          ( /\ Len(list) > 0
            /\ \A k \in 1 .. Len(list) : OffGrid(list[k][1], list[k][2])
            /\ Took("set_cells",
                    set_cells_result(width, height, cells, overflow_checks, list)) )
          => cells' = cells]_vars

(***************************************************************************)
(* C6.  insert_glider / insert_pulsar whose 3x3 / 15x15 box is not fully   *)
(* inside the grid returns normally and leaves cells and dimensions as     *)
(* they were.                                                              *)
(***************************************************************************)
BoxInside(row, column, half) ==
  /\ row - half >= 0 /\ row + half <= height - 1
  /\ column - half >= 0 /\ column + half <= width - 1

C6_StampOutsideIsNoOp ==
  [][/\ \A row \in Coords, column \in Coords :
          ( /\ ~ BoxInside(row, column, GliderHalf)
            /\ Took("insert_glider",
                    insert_glider_result(width, height, cells, overflow_checks,
                                         row, column)) )
          => (outcome' = "ok" /\ UNCHANGED <<width, height, cells>>)
     /\ \A row \in PulsarCoords, column \in PulsarCoords :
          ( /\ ~ BoxInside(row, column, PulsarHalf)
            /\ Took("insert_pulsar",
                    insert_pulsar_result(width, height, cells, overflow_checks,
                                         row, column)) )
          => (outcome' = "ok" /\ UNCHANGED <<width, height, cells>>)]_vars

(***************************************************************************)
(* C7.  Every mutating operation is all-or-nothing: a call that fails      *)
(* leaves width, height and every cell as they were before it.             *)
(***************************************************************************)
C7_FailureChangesNothing ==
  [][outcome' = "panic" => UNCHANGED <<width, height, cells>>]_vars

(***************************************************************************)
(* C8.  render() produces height lines of width glyphs and a newline, the  *)
(* glyph at line r, position c being the Alive glyph iff cell (r, c) is    *)
(* Alive.                                                                  *)
(***************************************************************************)
GridText(w, h, bs) ==
  [r \in 1 .. h |->
     [c \in 1 .. w |-> IF CellAt(w, bs, r - 1, c - 1) THEN AliveGlyph ELSE DeadGlyph]
     \o << Newline >>]

C8_RenderOneGlyphPerCell ==
  op = "render" =>
    /\ outcome = "ok"
    /\ render_result(width, cells).text = GridText(width, height, cells)

(***************************************************************************)
(* C9.  set_width(0) and set_height(0) do not fail, and a tick of a grid   *)
(* whose width or height is 0 completes and changes nothing.               *)
(***************************************************************************)
C9_ZeroSizedGrid ==
  [][/\ ((op' = "set_width" /\ width' = 0) \/ (op' = "set_height" /\ height' = 0))
          => outcome' = "ok"
     /\ (op' = "tick" /\ (width = 0 \/ height = 0))
          => (outcome' = "ok" /\ UNCHANGED <<width, height, cells>>)]_vars

\* a tick has run on a zero-sized grid whose storage still holds live bits
C9_Witness ==
  /\ op = "tick" /\ outcome = "ok"
  /\ (width = 0 \/ height = 0)
  /\ \E i \in DOMAIN cells : cells[i]

(***************************************************************************)
(* C10.  With the 3x3 box inside the grid, insert_glider(row, column)      *)
(* writes entry 3 * i + j of the pattern to cell (row - 1 + i,             *)
(* column - 1 + j) and changes nothing else; likewise insert_pulsar with   *)
(* its 15x15 pattern.                                                      *)
(***************************************************************************)
Stamped(row, column, half, pattern) ==
  /\ outcome' = "ok"
  /\ width' = width /\ height' = height
  /\ Length(cells') = Length(cells)
  /\ \A r \in 0 .. height - 1, c \in 0 .. width - 1 :
       CellAt(width', cells', r, c)
         = IF r \in (row - half) .. (row + half) /\ c \in (column - half) .. (column + half)
           THEN pattern[(2 * half + 1) * (r - (row - half)) + (c - (column - half)) + 1]
           ELSE CellAt(width, cells, r, c)

StampWritesPattern(ok) ==
  /\ \A row \in Coords, column \in Coords :
       ( /\ ok
         /\ BoxInside(row, column, GliderHalf)
         /\ Took("insert_glider",
                 insert_glider_result(width, height, cells, overflow_checks,
                                      row, column)) )
       => Stamped(row, column, GliderHalf, GliderPattern)
  /\ \A row \in PulsarCoords, column \in PulsarCoords :
       ( /\ ok
         /\ BoxInside(row, column, PulsarHalf)
         /\ Took("insert_pulsar",
                 insert_pulsar_result(width, height, cells, overflow_checks,
                                      row, column)) )
       => Stamped(row, column, PulsarHalf, PulsarPattern)

C10_StampWritesPattern == [][StampWritesPattern(TRUE)]_vars

C10_StampWritesPatternSized == [][StampWritesPattern(Sized)]_vars

(***************************************************************************)
(* C11: on any grid, of any width and height and with any contents,        *)
(* insert_glider(0, 0) returns normally and leaves width, height and       *)
(* every cell unchanged.                                                   *)
(***************************************************************************)
C11_GliderAtOriginIsNoOp ==
  [][Took("insert_glider",
          insert_glider_result(width, height, cells, overflow_checks, 0, 0))
       => (outcome' = "ok" /\ UNCHANGED <<width, height, cells>>)]_vars

\* under SpecEdit insert_glider is called only at the origin: here it has
\* returned on a grid too small for the subtraction height - 2, in a checked
\* build, with a live cell
C11_Witness ==
  /\ op = "insert_glider"
  /\ outcome = "ok"
  /\ overflow_checks
  /\ height < 2
  /\ \E i \in DOMAIN cells : cells[i]

(***************************************************************************)
(* C12: for every in-range (row, column), toggle_cell flips exactly that   *)
(* cell and leaves every other cell and both dimensions unchanged, so a    *)
(* second toggle_cell on the same coordinate restores the grid.            *)
(***************************************************************************)
ToggleFlipsOneCell(ok) ==
  \A row \in Coords, column \in Coords :
    LET once == toggle_cell_result(width, height, cells, overflow_checks, row, column)
        twice == toggle_cell_result(once.width, once.height, once.cells,
                                    overflow_checks, row, column)
    IN (ok /\ row < height /\ column < width /\ Took("toggle_cell", once))
         => /\ outcome' = "ok"
            /\ UNCHANGED <<width, height>>
            /\ \A r \in 0 .. (height - 1), c \in 0 .. (width - 1) :
                 CellAt(width, cells', r, c)
                   = (CellAt(width, cells, r, c) # (r = row /\ c = column))
            /\ \A i \in DOMAIN cells :
                 i >= width * height => cells'[i] = cells[i]
            /\ ~ twice.panics
            /\ twice.cells = cells

C12_ToggleFlipsOneCell == [][ToggleFlipsOneCell(TRUE)]_vars

\* the same on the grids the cell array holds
C12_ToggleFlipsOneCellSized == [][ToggleFlipsOneCell(Sized)]_vars

(***************************************************************************)
(* C13: for every list of in-range coordinates, after set_cells(list)      *)
(* every listed cell is Alive, every cell not listed is as it was, and     *)
(* width and height are unchanged.                                         *)
(***************************************************************************)
InRangeList(list) ==
  \A i \in 1 .. Len(list) : list[i][1] < height /\ list[i][2] < width

Listed(list, r, c) == \E i \in 1 .. Len(list) : list[i] = <<r, c>>

SetCellsSetsListed(ok) ==
  \A list \in CoordLists :
    (ok /\ InRangeList(list)
        /\ Took("set_cells",
                set_cells_result(width, height, cells, overflow_checks, list)))
      => /\ outcome' = "ok"
         /\ UNCHANGED <<width, height>>
         /\ \A r \in 0 .. (height - 1), c \in 0 .. (width - 1) :
              CellAt(width, cells', r, c)
                = (CellAt(width, cells, r, c) \/ Listed(list, r, c))

C13_SetCellsSetsListed == [][SetCellsSetsListed(TRUE)]_vars

\* the same on the grids the cell array holds
C13_SetCellsSetsListedSized == [][SetCellsSetsListed(Sized)]_vars

(***************************************************************************)
(* C14: from any reachable state, reset_all_dead() leaves every cell       *)
(* (r, c) with r < height and c < width Dead and the dimensions unchanged, *)
(* and a second reset_all_dead() yields an identical state.                *)
(***************************************************************************)
ResetAllDeadClears(ok) ==
  LET again == reset_all_dead_result(width', height', cells', overflow_checks)
  IN (ok /\ op' = "reset_all_dead")
       => /\ outcome' = "ok"
          /\ UNCHANGED <<width, height>>
          /\ \A r \in 0 .. (height - 1), c \in 0 .. (width - 1) :
               ~ CellAt(width, cells', r, c)
          /\ ~ again.panics
          /\ again.width = width' /\ again.height = height'
          /\ again.cells = cells'

C14_ResetAllDeadClears == [][ResetAllDeadClears(TRUE)]_vars

\* the same on the grids the cell array holds
C14_ResetAllDeadClearsSized == [][ResetAllDeadClears(Sized)]_vars

(***************************************************************************)
(* C15: on an otherwise all-Dead grid of at least 5x5 whose Alive cells    *)
(* are exactly the horizontal line (r, c-1), (r, c), (r, c+1), one tick    *)
(* yields exactly the vertical line (r-1, c), (r, c), (r+1, c) and a       *)
(* second tick yields the original horizontal line.                        *)
(***************************************************************************)
\* the (row, column) pairs of the Alive cells of a grid of width w
AliveCoords(w, h, bs) ==
  { <<i \div w, i % w>> : i \in { j \in DOMAIN bs : bs[j] /\ j < w * h } }

HLine(r, c) == { <<r, c - 1>>, <<r, c>>, <<r, c + 1>> }
VLine(r, c) == { <<r - 1, c>>, <<r, c>>, <<r + 1, c>> }

BlinkerOscillates(ok) ==
  \A r \in 1 .. (height - 2), c \in 1 .. (width - 2) :
    LET second == tick_result(width', height', cells', overflow_checks)
    IN (/\ ok
        /\ op' = "tick"
        /\ width >= 5 /\ height >= 5
        /\ AliveCoords(width, height, cells) = HLine(r, c))
         => /\ outcome' = "ok"
            /\ UNCHANGED <<width, height>>
            /\ AliveCoords(width, height, cells') = VLine(r, c)
            /\ ~ second.panics
            /\ AliveCoords(width, height, second.cells) = HLine(r, c)

C15_BlinkerOscillates == [][BlinkerOscillates(TRUE)]_vars

\* the same on the grids the cell array holds
C15_BlinkerOscillatesSized == [][BlinkerOscillates(Sized)]_vars

(***************************************************************************)
(* C16: on an otherwise all-Dead grid of at least 4x4 whose Alive cells    *)
(* are exactly a 2x2 block, at any position including one straddling the   *)
(* wrapped edges, the cell array is the same after every tick, hence       *)
(* after any number of consecutive ticks.                                  *)
(***************************************************************************)
BlockAt(w, h, r, c) ==
  { <<r, c>>, <<r, (c + 1) % w>>, <<(r + 1) % h, c>>, <<(r + 1) % h, (c + 1) % w>> }

BlockGrid(w, h, bs) ==
  /\ w >= 4 /\ h >= 4
  /\ \E a \in AliveCoords(w, h, bs) : AliveCoords(w, h, bs) = BlockAt(w, h, a[1], a[2])

C16_BlockIsStill ==
  [][(op' = "tick" /\ BlockGrid(width, height, cells))
       => (cells' = cells /\ UNCHANGED <<width, height>>)]_vars

\* tick has completed on a 4x4 grid whose block straddles both wrapped edges
C16_Witness ==
  /\ op = "tick"
  /\ outcome = "ok"
  /\ width = 4 /\ height = 4
  /\ AliveCoords(width, height, cells) = BlockAt(4, 4, 3, 3)

(***************************************************************************)
(* C17: in every state reached from new() through calls that each         *)
(* completed normally, tick completes without failure: every cell index    *)
(* it reads or writes, wrapped neighbour indices included, is smaller than *)
(* the length of the cell array.                                           *)
(***************************************************************************)
\* the indices tick computes for a w x h grid: each cell's and its eight neighbours'
TickIndices(w, h) ==
  UNION { {get_index(w, r, c)}
            \cup { get_index(w, neighbors(w, h, r, c)[k][1], neighbors(w, h, r, c)[k][2]) :
                     k \in 1 .. 8 } :
          r \in 0 .. (h - 1), c \in 0 .. (w - 1) }

TickCompletes(build) ==
  (build /\ op' = "tick")
    => /\ outcome' = "ok"
       /\ \A i \in TickIndices(width, height) : i < Length(cells)

C17_TickCompletes == [][TickCompletes(TRUE)]_vars

\* the same in a build with overflow checks
C17_TickCompletesChecked == [][TickCompletes(overflow_checks)]_vars

(***************************************************************************)
(* C18: every tick that starts the "Universe::tick" timing scope on entry  *)
(* ends that scope exactly once on every exit path, an exit caused by a    *)
(* failure partway through the scan included, and the timer has no effect  *)
(* on the resulting width, height or cells.                                *)
(***************************************************************************)
ScopeOpenedAndClosedOnce ==
  console' = << <<"time", "Universe::tick">>, <<"timeEnd", "Universe::tick">> >>

TimerScopeEndsOnce(exit) ==
  (op' = "tick" /\ exit)
    => /\ ScopeOpenedAndClosedOnce
       /\ Took("tick", tick_result(width, height, cells, overflow_checks))

C18_TimerScopeEndsOnce == [][TimerScopeEndsOnce(TRUE)]_vars

\* the same for the ticks that return
C18_TimerScopeEndsOnReturn == [][TimerScopeEndsOnce(outcome' = "ok")]_vars

(***************************************************************************)
(* C19: tick commutes with toroidal translation: for every grid with       *)
(* width >= 1 and height >= 1, every cell assignment and every shift       *)
(* (dr, dc), shifting all cells by (dr mod height, dc mod width) and then  *)
(* ticking gives the same grid as ticking and then shifting.               *)
(***************************************************************************)
\* the cell array whose cell (r, c) is the cell ((r - dr) mod h, (c - dc) mod w) of bs
Shift(w, h, bs, dr, dc) ==
  [i \in DOMAIN bs |->
     IF i < w * h
     THEN LET r == ((i \div w) + h - (dr % h)) % h
              c == ((i % w) + w - (dc % w)) % w
          IN Contains(bs, r * w + c)
     ELSE bs[i]]

Shifts == 0 .. MaxDim

\* stated for the first tick of each grid: the initial states of SpecGrids
\* are all the grids
C19_TickCommutesWithShift ==
  [][(op = "edited" /\ op' = "tick" /\ width >= 1 /\ height >= 1)
       => \A dr \in Shifts, dc \in Shifts :
            \A moved \in {Shift(width, height, cells, dr, dc)} :
              \A shifted \in {tick_result(width, height, moved, overflow_checks)} :
                /\ shifted.panics = (outcome' = "panic")
                /\ outcome' = "ok"
                     => shifted.cells = Shift(width, height, cells', dr, dc)]_vars

\* tick has completed on a 3x3 grid, leaving a grid that a shift by one row
\* and a shift by one column both change
C19_Witness ==
  /\ op = "tick"
  /\ outcome = "ok"
  /\ width = 3 /\ height = 3
  /\ Shift(width, height, cells, 1, 0) # cells
  /\ Shift(width, height, cells, 0, 1) # cells

====
